---- MODULE Spec2Model ----
(***************************************************************************)
(* A model of the RTCM3 reader in src/main.rs: the frame scanner           *)
(* (parse_rtcm3), the CRC24Q engine (crc24q_new), the bit-field reader     *)
(* (parse_bits), the classifier (get_type), the decoder (get_information,  *)
(* extract_msm7) and the driver loop of main.                              *)
(*                                                                         *)
(* Bytes are naturals in 0..255; a Rust slice data[a..b] is the TLA+       *)
(* sequence SubSeq(data, a+1, b).  A Rust panic (index out of bounds,      *)
(* unwrap of Err) is the outcome "panic": it ends the program.             *)
(***************************************************************************)
EXTENDS Integers, Sequences, FiniteSets, TLC

VARIABLES
  buffer,    \* parse_rtcm3: the bytes read from the file
  offset,    \* parse_rtcm3: the cursor (0-based, as in the source)
  messages,  \* parse_rtcm3: the Vec<RTCM3Message> built so far
  starts,    \* history: the value of offset at each messages.push, in order
  iter,      \* history: number of passes of the while body completed
  pc,        \* position of the program: "scan", "main", "exit", "panic";
             \* "call"/"ret" for a single call of a function
  idx,       \* main: number of messages already printed
  out,       \* main: the MessageInformation values printed
  call,      \* the function called and its arguments (single-call runs)
  ret        \* the outcome of that call

vars == <<buffer, offset, messages, starts, iter, pc, idx, out, call, ret>>

----------------------------------------------------------------------------
(* Bounds of the model *)

\* longest buffer, counted in segments (a noise byte or a whole frame)
MaxSegs == 2
\* longest payload drawn byte by byte from PayloadBytes
MaxPayloadLen == 2
\* length of the one long payload (above 255, so that the high length byte is used)
LongLen == 260

----------------------------------------------------------------------------
(* Machine arithmetic on unsigned integers *)

RECURSIVE BitXor(_, _)
BitXor(a, b) ==
  IF a = 0 THEN b
  ELSE IF b = 0 THEN a
  ELSE ((a + b) % 2) + 2 * BitXor(a \div 2, b \div 2)

RECURSIVE BitOr(_, _)
BitOr(a, b) ==
  IF a = 0 THEN b
  ELSE IF b = 0 THEN a
  ELSE (IF a % 2 = 1 \/ b % 2 = 1 THEN 1 ELSE 0) + 2 * BitOr(a \div 2, b \div 2)

RECURSIVE BitAnd(_, _)
BitAnd(a, b) ==
  IF a = 0 \/ b = 0 THEN 0
  ELSE (IF a % 2 = 1 /\ b % 2 = 1 THEN 1 ELSE 0) + 2 * BitAnd(a \div 2, b \div 2)

RECURSIVE Pow2(_)
Pow2(n) == IF n = 0 THEN 1 ELSE 2 * Pow2(n - 1)

\* x << n and x >> n on a w-bit unsigned integer, w <= 16 (bits shifted out
\* are lost)
Shl(x, n, w) == (x * Pow2(n)) % Pow2(w)
Shr(x, n) == x \div Pow2(n)

\* A u32 is kept as its two 16-bit halves, so that all 32 bits are modelled
\* with the integers TLC has.
U32(hi, lo) == [hi |-> hi, lo |-> lo]
\* `x as u32` of a u8 or u16
AsU32(x) == U32(0, x)
\* U32Shl on two separate 16-bit lanes: no bit passes from lo to hi
U32ShlNoCarry(v, n) ==
  U32((v.hi % Pow2(16 - n)) * Pow2(n), (v.lo % Pow2(16 - n)) * Pow2(n))

\* v << n on a u32, 0 <= n <= 16
U32Shl(v, n) ==
  U32((v.hi % Pow2(16 - n)) * Pow2(n) + v.lo \div Pow2(16 - n),
      (v.lo % Pow2(16 - n)) * Pow2(n))
U32Xor(a, b) == U32(BitXor(a.hi, b.hi), BitXor(a.lo, b.lo))
U32And(a, b) == U32(BitAnd(a.hi, b.hi), BitAnd(a.lo, b.lo))
U32Or(a, b) == U32(BitOr(a.hi, b.hi), BitOr(a.lo, b.lo))
U32Zero == U32(0, 0)
\* the number a u32 stands for (TLC has it only below 2^31)
U32Nat(v) == v.hi * 65536 + v.lo

----------------------------------------------------------------------------
(* crc24q_new *)

poly == U32(390, 19707)         \* 0x1864CFB
CrcTopBit == U32(256, 0)        \* 0x1000000
CrcMask == U32(255, 65535)      \* 0xFFFFFF

\* for _ in 0..8 { crc <<= 1; if crc & 0x1000000 != 0 { crc ^= poly; } }
RECURSIVE CrcRounds(_, _)
CrcRounds(crc, n) ==
  IF n = 0 THEN crc
  ELSE LET s == U32Shl(crc, 1)
       IN  IF U32And(s, CrcTopBit) # U32Zero
           THEN CrcRounds(U32Xor(s, poly), n - 1)
           ELSE CrcRounds(s, n - 1)

\* CrcOctet with the octet XORed into bits 8..15 of the register
CrcOctetLow(crc, octet) == CrcRounds(U32Xor(crc, U32Shl(AsU32(octet), 8)), 8)

\* crc ^= (*octet as u32) << 16; then the 8 rounds
CrcOctet(crc, octet) == CrcRounds(U32Xor(crc, U32Shl(AsU32(octet), 16)), 8)

\* for octet in data { ... }: the octets data[lo..hi] are folded into crc from
\* left to right.  The range is split in two, and the register after the first
\* half is looked at before the second half starts, only to keep TLC's
\* evaluation shallow on long inputs.
RECURSIVE CrcOctets(_, _, _, _)
CrcOctets(data, lo, hi, crc) ==
  IF lo > hi THEN crc
  ELSE IF lo = hi THEN CrcOctet(crc, data[lo])
  ELSE LET mid == (lo + hi) \div 2
           left == CrcOctets(data, lo, mid, crc)
       IN  IF left.hi >= 0 THEN CrcOctets(data, mid + 1, hi, left) ELSE left

\* crc24q_new with the register started at 0xB704CE instead of 0
crc24q_openpgp(data) ==
  U32Nat(U32And(CrcOctets(data, 1, Len(data), U32(183, 1230)), CrcMask))

\* let mut crc: u32 = 0; ... return crc & 0xFFFFFF;  (a number below 2^24)
crc24q_new(data) == U32Nat(U32And(CrcOctets(data, 1, Len(data), U32Zero), CrcMask))

----------------------------------------------------------------------------
(* Outcomes of a call: a returned value or a panic.  The source has no    *)
(* function that returns Err: parse_bits and get_type return plain values *)
(* and get_information only ever builds Ok(..).                           *)

Value(v) == [kind |-> "value", val |-> v]
Ok(v) == [kind |-> "Ok", val |-> v]
Panic == [kind |-> "panic", val |-> 0]

----------------------------------------------------------------------------
(* parse_bits *)

\* the state of `for i in 0..length` after its first n passes: the value
\* accumulated, or a panic because data[byte_index] was outside the slice
RECURSIVE ParseBitsLoop(_, _, _)
ParseBitsLoop(data, start_bit, n) ==
  IF n = 0 THEN Value(U32Zero)
  ELSE LET before == ParseBitsLoop(data, start_bit, n - 1)
           i == n - 1
           byte_index == (start_bit + i) \div 8
           bit_index == 7 - ((start_bit + i) % 8)
       IN  IF before.kind = "panic" \/ byte_index >= Len(data) THEN Panic
           ELSE LET bit == BitAnd(Shr(data[byte_index + 1], bit_index), 1)
                IN  Value(U32Or(U32Shl(before.val, 1), AsU32(bit)))

\* let mut value: u32 = 0; for i in 0..length { ... } value
parse_bits(data, start_bit, length) ==
  ParseBitsLoop(data, start_bit, length)

----------------------------------------------------------------------------
(* get_type, get_information, extract_msm7 *)

Named(n) == [name |-> n, val |-> 0]
Unknown(v) == [name |-> "Unknown", val |-> v]

\* the match of get_type with only its last arm
TypeTableAllUnknown(msgtype) == Unknown(msgtype)

\* the match of get_type
TypeTable(msgtype) ==
  CASE msgtype = 1004 -> Named("GPSExtendedL1AndL2RTKObservables")
    [] msgtype = 1042 -> Named("BeiDouEphemeris")
    [] msgtype = 1046 -> Named("GalileoEphemeris")
    [] msgtype = 1127 -> Named("BeiDouMSM7")
    [] msgtype = 1077 -> Named("GPSMSM7")
    [] msgtype = 1087 -> Named("GLONASSMSM7")
    [] msgtype = 1117 -> Named("QZSSMSM7")
    [] msgtype = 1097 -> Named("GalileoMSM7")
    [] msgtype = 1006 -> Named("StationaryRTKReferenceStationARPWithAntennaHeight")
    [] msgtype = 1008 -> Named("AntennaDescriptorAndSerialNumber")
    [] msgtype = 1033 -> Named("ReceiverWithAntennaDescriptors")
    [] msgtype = 1230 -> Named("GLONASSL1AndL2CodePhaseBiases")
    [] msgtype = 1013 -> Named("SystemParamters")
    [] msgtype = 1019 -> Named("GPSEphemerides")
    [] msgtype = 1020 -> Named("GLONASSEphemerides")
    [] msgtype = 1045 -> Named("GalileoFNAVSatelliteEphemeris")
    [] msgtype = 1044 -> Named("QZSSEphemerides")
    [] OTHER -> Unknown(msgtype)

\* MsgTypeCode with the first byte shifted by a whole byte
MsgTypeCodeByteShift(raw) == BitOr(Shl(raw[1], 8, 16), Shr(raw[2], 4))

\* (self.raw[0] as u16) << 4 | (self.raw[1] as u16) >> 4
MsgTypeCode(raw) == BitOr(Shl(raw[1], 4, 16), Shr(raw[2], 4))

\* raw[0] and raw[1] panic on a payload of fewer than 2 bytes
get_type(raw) ==
  IF Len(raw) < 2 THEN Panic ELSE Value(TypeTable(MsgTypeCode(raw)))

MSM7(n, s, e) ==
  [tag |-> "MSM7", message_number |-> n, reference_station_id |-> s, epoch_time |-> e]
InfoUnknown ==
  [tag |-> "Unknown", message_number |-> 0, reference_station_id |-> 0, epoch_time |-> 0]

\* the three parse_bits calls are evaluated in order; the first that panics
\* ends the call.  `as u16` keeps the low 16 bits; epoch_time is the u32.
extract_msm7(raw) ==
  LET n == parse_bits(raw, 0, 12)
      s == parse_bits(raw, 12, 12)
      e == parse_bits(raw, 24, 30)
  IN  IF n.kind = "panic" \/ s.kind = "panic" \/ e.kind = "panic" THEN Panic
      ELSE Ok(MSM7(n.val.lo, s.val.lo, U32Nat(e.val)))

\* the kind whose arm of get_information calls extract_msm7
DecodedKind == "BeiDouMSM7"

\* get_information with an Err for the codes get_type does not name
get_information_rejecting(raw) ==
  LET t == get_type(raw)
  IN  IF t.kind = "panic" THEN Panic
      ELSE IF t.val.name = DecodedKind THEN extract_msm7(raw)
      ELSE IF t.val.name = "Unknown" THEN [kind |-> "Err", val |-> 0]
      ELSE Ok(InfoUnknown)

get_information(raw) ==
  LET t == get_type(raw)
  IN  IF t.kind = "panic" THEN Panic
      ELSE IF t.val.name = DecodedKind THEN extract_msm7(raw)
      ELSE Ok(InfoUnknown)

----------------------------------------------------------------------------
(* Inputs: the buffers the scanner is run on *)

RECURSIVE Concat(_)
Concat(ss) == IF ss = << >> THEN << >> ELSE Head(ss) \o Concat(Tail(ss))

SeqsUpTo(S, n) == UNION {[1..k -> S] : k \in 0..n}

\* big-endian 3-byte encoding of a 24-bit value
Trailer(c) == <<c \div 65536, (c \div 256) % 256, c % 256>>

\* the frame of payload P with reserved bits r: preamble, 6 reserved bits and
\* 10 length bits, payload, CRC24Q of all that
MkFrameR(P, r) ==
  LET head == <<211, 4 * r + Len(P) \div 256, Len(P) % 256>> \o P
  IN  head \o Trailer(crc24q_new(head))

MkFrame(P) == MkFrameR(P, 0)

\* frame F with payload byte i (1-based) altered: its low bit flipped
Corrupt(F, i) == [F EXCEPT ![3 + i] = BitXor(F[3 + i], 1)]

\* header of a GPS MSM7 message: number 1077, station 5, epoch 123456
GpsMsm7Payload == <<67, 80, 5, 0, 7, 137, 0>>
\* the same header with the BeiDou MSM7 number 1127
BeiDouMsm7Payload == <<70, 112, 5, 0, 7, 137, 0>>
\* a payload whose length does not fit in the low byte of the length field
LongPayload == [i \in 1..LongLen |-> (7 * i) % 256]

\* a payload that is itself a valid frame (the frame of the empty payload)
NestedPayload == MkFrame(<< >>)

Payloads == {<< >>, <<211>>, GpsMsm7Payload, BeiDouMsm7Payload}
CorruptiblePayloads == {<<211>>, GpsMsm7Payload}
ReservedPayloads == {<<211>>}
PayloadBytes == {0, 211}
GenericPayloads ==
  SeqsUpTo(PayloadBytes, MaxPayloadLen) \cup {LongPayload, NestedPayload}

\* the frame of each drawn payload, computed once
FrameTable == {<<P, MkFrame(P)>> : P \in Payloads \cup GenericPayloads}
FrameOf ==
  [P \in Payloads \cup GenericPayloads |-> (CHOOSE t \in FrameTable : t[1] = P)[2]]
CorruptAt(P) == {1, Len(P)}
CorruptFrames == {Corrupt(FrameOf[P], i) : <<P, i>> \in
                    {<<Q, j>> \in CorruptiblePayloads \X (1..8) : j \in CorruptAt(Q)}}
ReservedFrameOf == [P \in ReservedPayloads |-> MkFrameR(P, 1)]

NoiseBytes == {0, 211}
Segments ==
  {<<b>> : b \in NoiseBytes}
    \cup {FrameOf[P] : P \in Payloads}
    \cup CorruptFrames
    \cup {ReservedFrameOf[P] : P \in ReservedPayloads}

\* two valid frames with one noise byte between them
GappedPairs ==
  {FrameOf[P1] \o <<b>> \o FrameOf[P2] :
     P1 \in Payloads, b \in NoiseBytes, P2 \in Payloads}

\* frame F with bit b altered (bits numbered from 0, the most significant
\* bit of the first byte first)
FlipBit(F, b) ==
  [F EXCEPT ![(b \div 8) + 1] = BitXor(F[(b \div 8) + 1], Pow2(7 - (b % 8)))]
FlippablePayloads == {<< >>, <<211>>, GpsMsm7Payload}
\* every valid frame of a flippable payload with every one of its bits
\* altered: <<payload, bit, altered frame>>
FlipTable ==
  {<<t[1], t[2], FlipBit(FrameOf[t[1]], t[2])>> : t \in
     {u \in FlippablePayloads \X (0..103) : u[2] < 8 * (Len(u[1]) + 6)}}
FlippedFrames == {t[3] : t \in FlipTable}

\* a frame whose payload is a valid frame, a noise byte and a second frame
NestedThenFrame ==
  {FrameOf[NestedPayload] \o <<b>> \o FrameOf[P] : b \in NoiseBytes, P \in Payloads}

Buffers ==
  {Concat(ss) : ss \in SeqsUpTo(Segments, MaxSegs)}
    \cup GappedPairs
    \cup NestedThenFrame
    \cup {FrameOf[P] : P \in GenericPayloads}
    \cup FlippedFrames

----------------------------------------------------------------------------
(* parse_rtcm3: the scan loop *)

Preamble == 211    \* 0xD3

\* let data = &buffer[offset..];
Data == SubSeq(buffer, offset + 1, Len(buffer))

\* FrameLength with the high byte dropped
FrameLengthLowByte(byte2, byte3) == byte3

\* (((byte2 as u16) << 8) | byte3 as u16) as usize
FrameLength(byte2, byte3) == BitOr(Shl(byte2, 8, 16), byte3)

\* Resync with the increment forgotten
ResyncStuck(o) == o

\* offset += 1  (the three `continue` branches)
Resync(o) == o + 1

\* AfterFrame that steps over the preamble only
AfterFrameByOne(o, length) == o + 1

\* offset += length as usize + 7
AfterFrame(o, length) == o + length + 7

\* &data[0..length + 6]
FullData(data, length) == SubSeq(data, 1, length + 6)

\* Payload taken one byte too early
PayloadShifted(data, length) == SubSeq(data, 3, length + 2)

\* &data[3..length + 3]
Payload(data, length) == SubSeq(data, 4, length + 3)

\* CrcGood with the test left out
CrcGoodAlways(calculated_crc) == TRUE

\* calculated_crc != 0  is the bad-checksum branch
CrcGood(calculated_crc) == calculated_crc = 0

InLoop == pc = "scan" /\ offset < Len(buffer)

\* if byte1 != 0xD3 { offset += 1; continue; }
SkipNoPreamble ==
  /\ InLoop
  /\ Data[1] # Preamble
  /\ offset' = Resync(offset)
  /\ iter' = iter + 1
  /\ UNCHANGED <<buffer, messages, starts, pc, idx, out, call, ret>>

\* data[1] or data[2] is outside the slice: index out of bounds
HeaderPanic ==
  /\ InLoop
  /\ Data[1] = Preamble
  /\ Len(Data) < 3
  /\ pc' = "panic"
  /\ UNCHANGED <<buffer, offset, messages, starts, iter, idx, out, call, ret>>

\* if data.len() < length + 6 { offset += 1; continue; }
SkipIncomplete ==
  /\ InLoop
  /\ Data[1] = Preamble
  /\ Len(Data) >= 3
  /\ Len(Data) < FrameLength(Data[2], Data[3]) + 6
  /\ offset' = Resync(offset)
  /\ iter' = iter + 1
  /\ UNCHANGED <<buffer, messages, starts, pc, idx, out, call, ret>>

\* if calculated_crc != 0 { offset += 1; continue; }
SkipBadCrc ==
  /\ InLoop
  /\ Data[1] = Preamble
  /\ Len(Data) >= 3
  /\ LET length == FrameLength(Data[2], Data[3])
     IN  /\ Len(Data) >= length + 6
         /\ ~CrcGood(crc24q_new(FullData(Data, length)))
  /\ offset' = Resync(offset)
  /\ iter' = iter + 1
  /\ UNCHANGED <<buffer, messages, starts, pc, idx, out, call, ret>>

\* messages.push(RTCM3Message { raw: msg.to_vec() }); offset += length + 7;
EmitFrame ==
  /\ InLoop
  /\ Data[1] = Preamble
  /\ Len(Data) >= 3
  /\ LET length == FrameLength(Data[2], Data[3])
     IN  /\ Len(Data) >= length + 6
         /\ CrcGood(crc24q_new(FullData(Data, length)))
         /\ messages' = Append(messages, [raw |-> Payload(Data, length)])
         /\ offset' = AfterFrame(offset, length)
  /\ starts' = Append(starts, offset)
  /\ iter' = iter + 1
  /\ UNCHANGED <<buffer, pc, idx, out, call, ret>>

\* the loop condition fails: println!("Done!"); Ok(messages), unwrapped by main
ScanDone ==
  /\ pc = "scan"
  /\ offset >= Len(buffer)
  /\ pc' = "main"
  /\ UNCHANGED <<buffer, offset, messages, starts, iter, idx, out, call, ret>>

----------------------------------------------------------------------------
(* main: for msg in messages { msg.get_information().unwrap(); println!() } *)

MainPrint ==
  /\ pc = "main"
  /\ idx < Len(messages)
  /\ LET info == get_information(messages[idx + 1].raw)
     IN  /\ info.kind = "Ok"
         /\ out' = Append(out, info.val)
  /\ idx' = idx + 1
  /\ UNCHANGED <<buffer, offset, messages, starts, iter, pc, call, ret>>

MainPanic ==
  /\ pc = "main"
  /\ idx < Len(messages)
  /\ get_information(messages[idx + 1].raw).kind = "panic"
  /\ pc' = "panic"
  /\ UNCHANGED <<buffer, offset, messages, starts, iter, idx, out, call, ret>>

MainExit ==
  /\ pc = "main"
  /\ idx >= Len(messages)
  /\ pc' = "exit"
  /\ UNCHANGED <<buffer, offset, messages, starts, iter, idx, out, call, ret>>

----------------------------------------------------------------------------
(* The program *)

NoCall == [fn |-> "none"]
NoRet == [kind |-> "none", val |-> 0]

Init ==
  /\ buffer \in Buffers
  /\ offset = 0
  /\ messages = << >>
  /\ starts = << >>
  /\ iter = 0
  /\ pc = "scan"
  /\ idx = 0
  /\ out = << >>
  /\ call = NoCall
  /\ ret = NoRet

Next ==
  \/ SkipNoPreamble
  \/ HeaderPanic
  \/ SkipIncomplete
  \/ SkipBadCrc
  \/ EmitFrame
  \/ ScanDone
  \/ MainPrint
  \/ MainPanic
  \/ MainExit

Spec == Init /\ [][Next]_vars

----------------------------------------------------------------------------
(* Single calls of parse_bits, get_type and get_information on drawn inputs *)

\* largest start_bit and length of a drawn parse_bits call
MaxStartBit == 32
MaxBitLength == 32

Prefixes(q) == {SubSeq(q, 1, k) : k \in 0..Len(q)}

BitBuffers == {<< >>, <<180>>, <<180, 192>>, GpsMsm7Payload, <<255, 255, 255, 255, 255>>}
\* the message numbers the match of get_type names
KnownCodes ==
  {1004, 1042, 1046, 1127, 1077, 1087, 1117, 1097, 1006, 1008, 1033, 1230,
   1013, 1019, 1020, 1045, 1044}
\* the 12-bit codes drawn: the named ones, neighbours of named ones, the
\* smallest and the largest
TypeCodes == KnownCodes \cup {0, 1003, 1076, 1078, 1231, 4095}
\* the shortest payload whose leading 12 bits are c (the 4 bits after are 0)
CodePayload(c) == <<c \div 16, (c % 16) * 16>>
\* payloads with the leading 12 bits c and different bits after them
TypePayloads ==
  {CodePayload(c) : c \in TypeCodes}
    \cup {<<c \div 16, (c % 16) * 16 + 15>> : c \in TypeCodes}
    \cup {<<c \div 16, (c % 16) * 16 + 5, 255>> : c \in TypeCodes}
CallPayloads ==
  Payloads \cup Prefixes(GpsMsm7Payload) \cup Prefixes(BeiDouMsm7Payload)
    \cup TypePayloads

\* longest crc24q_new input drawn byte by byte from CrcBytes
MaxCrcLen == 2
CrcBytes == {0, 1, 128, 211}
\* the ASCII digits "123456789"
CheckString == <<49, 50, 51, 52, 53, 54, 55, 56, 57>>
\* a frame of a station-position message (number 1005) as receivers send it
Rtcm1005Frame ==
  <<211, 0, 19, 62, 215, 211, 2, 2, 152, 14, 222, 239, 52, 180, 189, 98, 172,
    9, 65, 152, 111, 51, 54, 11, 152>>
\* messages M and 3-byte trailers T: the CRC of M in big-endian order, the
\* same with each one of its 24 bits altered, all zeros and all ones
TrailerMessages ==
  {<< >>, <<0>>, <<211>>, <<211, 0, 0>>, <<211, 0, 7>> \o GpsMsm7Payload,
   CheckString}
TrailersFor(M) ==
  {Trailer(crc24q_new(M))}
    \cup {FlipBit(Trailer(crc24q_new(M)), b) : b \in 0..23}
    \cup {<<0, 0, 0>>, <<255, 255, 255>>}
TrailerInputs == UNION {{M \o T : T \in TrailersFor(M)} : M \in TrailerMessages}
CrcInputs ==
  SeqsUpTo(CrcBytes, MaxCrcLen)
    \cup {CheckString, Rtcm1005Frame, SubSeq(Rtcm1005Frame, 1, 22)}
    \cup {FrameOf[P] : P \in Payloads}
    \cup TrailerInputs

Calls ==
  {[fn |-> "parse_bits", data |-> d, start_bit |-> s, length |-> n] :
     d \in BitBuffers, s \in 0..MaxStartBit, n \in 0..MaxBitLength}
    \cup {[fn |-> f, raw |-> r] :
            f \in {"get_type", "get_information"}, r \in CallPayloads}
    \cup {[fn |-> "crc24q_new", data |-> d] : d \in CrcInputs}

CallInit ==
  /\ call \in Calls
  /\ pc = "call"
  /\ ret = NoRet
  /\ buffer = << >>
  /\ offset = 0
  /\ messages = << >>
  /\ starts = << >>
  /\ iter = 0
  /\ idx = 0
  /\ out = << >>

CallParseBits ==
  /\ pc = "call"
  /\ call.fn = "parse_bits"
  /\ ret' = parse_bits(call.data, call.start_bit, call.length)
  /\ pc' = "ret"
  /\ UNCHANGED <<buffer, offset, messages, starts, iter, idx, out, call>>

CallGetType ==
  /\ pc = "call"
  /\ call.fn = "get_type"
  /\ ret' = get_type(call.raw)
  /\ pc' = "ret"
  /\ UNCHANGED <<buffer, offset, messages, starts, iter, idx, out, call>>

CallGetInformation ==
  /\ pc = "call"
  /\ call.fn = "get_information"
  /\ ret' = get_information(call.raw)
  /\ pc' = "ret"
  /\ UNCHANGED <<buffer, offset, messages, starts, iter, idx, out, call>>

CallCrc24q ==
  /\ pc = "call"
  /\ call.fn = "crc24q_new"
  /\ ret' = Value(crc24q_new(call.data))
  /\ pc' = "ret"
  /\ UNCHANGED <<buffer, offset, messages, starts, iter, idx, out, call>>

CallNext ==
  \/ CallParseBits
  \/ CallGetType
  \/ CallGetInformation
  \/ CallCrc24q

CallSpec == CallInit /\ [][CallNext]_vars

----------------------------------------------------------------------------
(* Vocabulary of the properties *)

\* the scan loop has been left (normally or by a panic)
ScanOver == pc # "scan"
\* the program panicked inside the scan loop (main panics only after it)
ScanAborted == pc = "panic" /\ offset < Len(buffer)
\* the scan loop ran to the end of the buffer
ScanReturned == pc \in {"main", "exit"} \/ (pc = "panic" /\ offset >= Len(buffer))

Msgs(ps) == [k \in 1..Len(ps) |-> [raw |-> ps[k]]]

\* buf is the frame F1, or F1 followed by F2 (lengths are compared first)
Is(buf, F1) == Len(buf) = Len(F1) /\ buf = F1
IsPair(buf, F1, F2) == Len(buf) = Len(F1) + Len(F2) /\ buf = F1 \o F2

\* the payload length the wire format defines: the low 10 bits of the 16-bit
\* big-endian value after the preamble
WireLength(byte2, byte3) == (byte2 % 4) * 256 + byte3

\* bit i of a buffer as the wire format numbers it: bit (7 - i mod 8) of
\* byte i div 8, and the unsigned number made of n bits from bit `start` on,
\* most significant first
BitAt(raw, i) == (raw[(i \div 8) + 1] \div Pow2(7 - (i % 8))) % 2
RECURSIVE FieldAt(_, _, _)
FieldAt(raw, start, n) ==
  IF n = 0 THEN 0 ELSE 2 * FieldAt(raw, start, n - 1) + BitAt(raw, start + n - 1)
\* the same number for n up to 32, as the two 16-bit halves of a u32
FieldAtU32(raw, start, n) ==
  IF n <= 16 THEN U32(0, FieldAt(raw, start, n))
  ELSE U32(FieldAt(raw, start, n - 16), FieldAt(raw, start + n - 16, 16))

\* CRC24Q as the remainder of a polynomial division: the message bits, most
\* significant first, followed by 24 zero bits, are shifted one by one into
\* a register, and the generator 0x1864CFB is subtracted (XOR) whenever
\* bit 24 of the register becomes 1.  Crc24qBits shifts in the bits numbered
\* lo..hi (from 0), the range being split in two to keep the evaluation
\* shallow.
Generator == U32Nat(poly)
Crc24qBit(data, reg, k) ==
  LET b == IF k < 8 * Len(data) THEN BitAt(data, k) ELSE 0
  IN  IF 2 * reg + b >= 16777216
      THEN BitXor(2 * reg + b, Generator)
      ELSE 2 * reg + b
RECURSIVE Crc24qBits(_, _, _, _)
Crc24qBits(data, lo, hi, reg) ==
  IF lo > hi THEN reg
  ELSE IF lo = hi THEN Crc24qBit(data, reg, lo)
  ELSE LET mid == (lo + hi) \div 2
           left == Crc24qBits(data, lo, mid, reg)
       IN  IF left >= 0 THEN Crc24qBits(data, mid + 1, hi, left) ELSE left
Crc24q(data) == Crc24qBits(data, 0, 8 * Len(data) + 23, 0)

----------------------------------------------------------------------------
(* C1: a buffer that is two valid frames back to back yields exactly the   *)
(* two payloads, in order.                                                 *)
C1_TwoFramesBackToBack ==
  \A P1 \in Payloads, P2 \in Payloads :
    (ScanOver /\ IsPair(buffer, FrameOf[P1], FrameOf[P2]))
      => messages = Msgs(<<P1, P2>>)

(* C2: at a preamble byte from which the candidate frame is incomplete     *)
(* (also when the length field itself is cut off) the scanner advances by  *)
(* exactly 1 and goes on; the scan loop is left only at the end of the     *)
(* buffer.                                                                 *)
C2_Incomplete ==
  /\ InLoop
  /\ Data[1] = Preamble
  /\ \/ Len(Data) < 3
     \/ Len(Data) < WireLength(Data[2], Data[3]) + 6

C2_IncompleteNeverAborts ==
  [][/\ C2_Incomplete => (pc' = "scan" /\ offset' = offset + 1 /\ messages' = messages)
     /\ (pc = "scan" /\ pc' # "scan") => offset >= Len(buffer)]_vars

(* C3: the length used is the low 10 bits of the length field: every       *)
(* emitted payload has at most 1023 bytes, and a frame with nonzero        *)
(* reserved bits and a good CRC over its L + 6 bytes is emitted with its   *)
(* payload of L bytes.                                                     *)
C3_ReservedBitsMasked ==
  /\ \A k \in 1..Len(messages) : Len(messages[k].raw) <= 1023
  /\ \A P \in ReservedPayloads :
       (ScanOver /\ Is(buffer, ReservedFrameOf[P])) => messages = Msgs(<<P>>)

(* C4: get_information of a payload of at least 54 bits whose first 12     *)
(* bits are 1077 is the MSM7 record of the bit fields (0,12), (12,12) and  *)
(* (24,30).                                                                *)
C4_GpsMsm7Decoded ==
  (/\ pc = "ret"
   /\ call.fn = "get_information"
   /\ 8 * Len(call.raw) >= 54
   /\ FieldAt(call.raw, 0, 12) = 1077)
    => ret = Ok(MSM7(FieldAt(call.raw, 0, 12),
                     FieldAt(call.raw, 12, 12),
                     FieldAt(call.raw, 24, 30)))

(* C5: every parse_bits call with start_bit + bit_length beyond the end    *)
(* of the buffer fails (the only failure parse_bits has is the index       *)
(* panic); none returns a value, a call with bit_length = 0 included.      *)
C5_OutOfRangeFails ==
  (/\ pc = "ret"
   /\ call.fn = "parse_bits"
   /\ call.start_bit + call.length > 8 * Len(call.data))
    => ret.kind # "value"

(* C6: get_type and get_information of a payload too short for the bits    *)
(* they read (fewer than 2 bytes; fewer than 54 bits where the MSM7 header *)
(* is decoded) return an OutOfRange error value: no panic, no kind or      *)
(* record.                                                                 *)
C6_TooShort ==
  \/ Len(call.raw) < 2
  \/ /\ call.fn = "get_information"
     /\ TypeTable(FieldAt(call.raw, 0, 12)).name = DecodedKind
     /\ 8 * Len(call.raw) < 54

C6_ShortPayloadTypedError ==
  (/\ pc = "ret"
   /\ call.fn \in {"get_type", "get_information"}
   /\ C6_TooShort)
    => ret.kind = "OutOfRange"

C8_SecondFrames ==
  {FrameOf[P] : P \in Payloads} \cup {ReservedFrameOf[P] : P \in ReservedPayloads}

C8_CorruptionResilience ==
  \A C \in CorruptFrames, F2 \in C8_SecondFrames :
    IsPair(buffer, C, F2)
      => /\ ~ScanAborted
         /\ \A k \in 1..Len(starts) : starts[k] >= Len(C)
         /\ ScanOver => (/\ Len(messages) = 1
                         /\ messages[1].raw = SubSeq(F2, 4, Len(F2) - 3))

(* C9: every emitted frame was found at an offset o holding 0xD3, the      *)
(* CRC24Q of the L + 6 bytes from o is zero and the payload is the L bytes *)
(* from o + 3; a buffer without 0xD3 yields no frame.  (Frames are only    *)
(* ever appended, so all of them are looked at once the loop is left.)     *)
C9_EmittedFramesVerified ==
  /\ Len(starts) = Len(messages)
  /\ (\A j \in 1..Len(buffer) : buffer[j] # 211) => messages = << >>
  /\ ScanOver =>
       \A k \in 1..Len(messages) :
         LET o == starts[k]
             L == Len(messages[k].raw)
         IN  /\ o + L + 6 <= Len(buffer)
             /\ buffer[o + 1] = 211
             /\ messages[k].raw = SubSeq(buffer, o + 4, o + 3 + L)
             /\ crc24q_new(SubSeq(buffer, o + 1, o + L + 6)) = 0

C9_Witness ==
  /\ ScanReturned
  /\ Len(messages) = 2
  /\ starts[2] > starts[1]
  /\ Len(messages[2].raw) > 0

(* C10: scanning a buffer that is exactly the valid frame of a payload P   *)
(* (reserved bits zero) yields exactly one frame, with payload P and       *)
(* length Len(P).                                                          *)
C10_FrameRoundTrip ==
  \A P \in Payloads \cup GenericPayloads :
    (Len(buffer) = Len(P) + 6 /\ buffer = FrameOf[P])
      => /\ ~ScanAborted
         /\ ScanOver => (/\ messages = Msgs(<<P>>)
                         /\ Len(messages[1].raw) = Len(P))

C10_Witness ==
  /\ ScanReturned
  /\ Len(buffer) = LongLen + 6
  /\ buffer = FrameOf[LongPayload]
  /\ messages = Msgs(<<LongPayload>>)

(* C11: for start_bit and bit_length in 0..32 with start_bit + bit_length  *)
(* within the buffer, parse_bits returns the unsigned number whose digits, *)
(* most significant first, are bits start_bit .. start_bit+bit_length-1,   *)
(* bit i being bit (7 - i mod 8) of byte i div 8; on <<180, 192>> bits     *)
(* 0..3 give 11 and bits 4..11 give 76.                                    *)
C11_BitFieldRead ==
  (/\ pc = "ret"
   /\ call.fn = "parse_bits"
   /\ call.start_bit <= 32
   /\ call.length <= 32
   /\ call.start_bit + call.length <= 8 * Len(call.data))
    => /\ ret = Value(FieldAtU32(call.data, call.start_bit, call.length))
       /\ (call.data = <<180, 192>> /\ call.start_bit = 0 /\ call.length = 4)
            => ret.val = U32(0, 11)
       /\ (call.data = <<180, 192>> /\ call.start_bit = 4 /\ call.length = 8)
            => ret.val = U32(0, 76)

\* a 32-bit field that starts inside a byte and ends inside another:
\* bits 3..34 of 43 50 05 00 07 are 0x1A802800 (hi 6784, lo 10240)
C11_Witness ==
  /\ pc = "ret"
  /\ call.fn = "parse_bits"
  /\ call.data = GpsMsm7Payload
  /\ call.start_bit = 3
  /\ call.length = 32
  /\ ret = Value(U32(6784, 10240))

(* C12: for a payload of at least 2 bytes get_type depends only on the     *)
(* leading 12 bits c: 1077 gives the GPS MSM7 kind (1230 the GLONASS       *)
(* code-phase bias kind), every code of the table gives a named kind that  *)
(* no other code of the table gives, and every other code gives Unknown    *)
(* carrying c; the call never fails.                                       *)
C12_Classification ==
  (/\ pc = "ret"
   /\ call.fn = "get_type"
   /\ Len(call.raw) >= 2)
    => LET c == FieldAt(call.raw, 0, 12)
       IN  /\ ret.kind = "value"
           /\ ret = get_type(CodePayload(c))
           /\ c = 1077 => ret.val = Named("GPSMSM7")
           /\ c = 1230 => ret.val = Named("GLONASSL1AndL2CodePhaseBiases")
           /\ c \in KnownCodes =>
                /\ ret.val.name # "Unknown"
                /\ \A d \in KnownCodes \ {c} : get_type(CodePayload(d)) # ret
           /\ c \notin KnownCodes => ret.val = Unknown(c)

\* a code next to 1077, on a payload with further bits set after the code
C12_Witness ==
  /\ pc = "ret"
  /\ call.fn = "get_type"
  /\ call.raw = <<67, 101, 255>>
  /\ ret = Value(Unknown(1078))

(* C13: crc24q_new returns the CRC24Q of its input: register started at   *)
(* 0, each byte XORed into bits 16..23 and followed by 8 rounds of shift   *)
(* left and XOR with 0x1864CFB when bit 24 is set, result the low 24 bits. *)
(* That is the remainder of the message times x^24 divided by the          *)
(* generator.  Every call returns; the result is below 2^24 and equals the *)
(* whole register (no bit above bit 23 is left in it); the empty input     *)
(* gives 0, and "123456789" gives the check value 0xCDE703.                *)
C13_Crc24q ==
  (pc = "ret" /\ call.fn = "crc24q_new")
    => /\ ret.kind = "value"
       /\ ret.val = Crc24q(call.data)
       /\ ret.val < 16777216
       /\ ret.val = U32Nat(CrcOctets(call.data, 1, Len(call.data), U32Zero))
       /\ call.data = << >> => ret.val = 0
       /\ call.data = CheckString => ret.val = 13494019
       /\ call.data = Rtcm1005Frame => ret.val = 0

C13_Witness ==
  /\ pc = "ret"
  /\ call.fn = "crc24q_new"
  /\ call.data = CheckString
  /\ ret = Value(13494019)

(* C14: a valid frame with any one of its bits altered has a nonzero       *)
(* crc24q_new value, and the scanner emits no frame that starts at the     *)
(* altered frame's first byte.  (The buffer never changes, so its checksum  *)
(* is looked at before the first pass of the loop.)                        *)
C14_SingleBitErrorDetected ==
  \A t \in FlipTable :
    Is(buffer, t[3])
      => /\ iter = 0 => (crc24q_new(FrameOf[t[1]]) = 0 /\ crc24q_new(buffer) # 0)
         /\ \A k \in 1..Len(starts) : starts[k] # 0

\* the last bit of the trailer altered: the candidate at offset 0 is complete,
\* its checksum is computed and the frame is refused
C14_Witness ==
  /\ ScanReturned
  /\ Is(buffer, FlipBit(FrameOf[GpsMsm7Payload], 103))
  /\ iter >= 1
  /\ messages = << >>

(* C15: get_information of a payload of at least 2 bytes whose kind has no *)
(* decoder returns Ok(MessageInformation::Unknown), the unparsed marker:   *)
(* no error, no panic, no record.  The one kind with a decoder is the      *)
(* MSM7 kind of code 1127; every other named kind (GPS MSM7, 1077,         *)
(* included) and every unnamed code is without one.                        *)
C15_UndecodedKindsUnparsed ==
  (/\ pc = "ret"
   /\ call.fn = "get_information"
   /\ Len(call.raw) >= 2
   /\ FieldAt(call.raw, 0, 12) # 1127)
    => ret = Ok(InfoUnknown)

\* an unnamed code, on a payload too short for the MSM7 header
C15_Witness ==
  /\ pc = "ret"
  /\ call.fn = "get_information"
  /\ call.raw = <<255, 255>>
  /\ ret = Ok(InfoUnknown)

(* C16: in a pass of the loop where the byte at the cursor is not 0xD3, or *)
(* fewer than L + 6 bytes remain, or the CRC over the L + 6 bytes is       *)
(* nonzero (L the low 10 bits of the length field), the cursor advances by *)
(* exactly 1, the scan goes on, and the frames emitted so far and the      *)
(* buffer are unchanged.                                                   *)
C16_NoPreamble == InLoop /\ Data[1] # Preamble

C16_TooFewBytes ==
  /\ InLoop
  /\ Data[1] = Preamble
  /\ \/ Len(Data) < 3
     \/ Len(Data) < WireLength(Data[2], Data[3]) + 6

C16_BadCrc ==
  /\ InLoop
  /\ Data[1] = Preamble
  /\ Len(Data) >= 3
  /\ Len(Data) >= WireLength(Data[2], Data[3]) + 6
  /\ crc24q_new(SubSeq(Data, 1, WireLength(Data[2], Data[3]) + 6)) # 0

C16_ResyncIdentical ==
  [][(C16_NoPreamble \/ C16_TooFewBytes \/ C16_BadCrc)
       => /\ pc' = "scan"
          /\ offset' = offset + 1
          /\ messages' = messages
          /\ buffer' = buffer]_vars

(* C17: the frames are emitted in strictly ascending order of their start  *)
(* offset, and the byte range [o, o + L + 6) of a frame ends at or before  *)
(* the start of every frame emitted after it: no frame is emitted from     *)
(* bytes inside a frame emitted before.                                    *)
C17_AscendingDisjoint ==
  /\ Len(starts) = Len(messages)
  /\ \A j \in 1..Len(starts) : \A k \in 1..Len(starts) :
       j < k => /\ starts[j] < starts[k]
                /\ starts[j] + Len(messages[j].raw) + 6 <= starts[k]

\* a frame whose payload holds a whole valid frame, a noise byte and a second
\* frame: the frame inside the first payload (at offset 3) is not emitted
C17_Witness ==
  /\ ScanReturned
  /\ buffer = FrameOf[NestedPayload] \o <<0>> \o FrameOf[GpsMsm7Payload]
  /\ crc24q_new(SubSeq(buffer, 4, 9)) = 0
  /\ messages = Msgs(<<NestedPayload, GpsMsm7Payload>>)
  /\ starts = <<0, 13>>

C19_InlineCodeIsBitField ==
  (/\ pc = "ret"
   /\ call.fn \in {"get_type", "get_information"}
   /\ Len(call.raw) >= 2)
    => LET p == parse_bits(call.raw, 0, 12)
       IN  /\ p.kind = "value"
           /\ p.val = U32(0, MsgTypeCode(call.raw))
           /\ call.fn = "get_type" => ret = Value(TypeTable(p.val.lo))
           /\ (call.fn = "get_information" /\ ret.kind = "Ok" /\ ret.val.tag = "MSM7")
                => /\ ret.val.message_number = MsgTypeCode(call.raw)
                   /\ TypeTable(ret.val.message_number).name = DecodedKind

\* the decoded MSM7 header: the record carries the number it was chosen by
C19_Witness ==
  /\ pc = "ret"
  /\ call.fn = "get_information"
  /\ call.raw = BeiDouMsm7Payload
  /\ MsgTypeCode(call.raw) = 1127
  /\ ret = Ok(MSM7(1127, 5, 123456))

====
